---------------------------- MODULE Spec2Model ----------------------------
(***************************************************************************)
(* A model of createGradientWithOklch (utils/createGradient) of the        *)
(* gradient visualizer, with the culori primitives it calls and the        *)
(* module-level mode registration of the App.                              *)
(*                                                                         *)
(* Numbers.  Lightness and chroma are integers in ticks of 1/(1000*Den):   *)
(* Milli(200) is 0.2.  Path positions are integers in units of 1/PosOne:   *)
(* PosOne is position 1.0.  Den is a common multiple of every keyframe     *)
(* distance of the model, so that the linear interpolation a + t*(b-a) is  *)
(* exact.  Hues are whole degrees.  JavaScript's undefined, where a number *)
(* is expected, is the value undefined, which lies outside every numeric   *)
(* range of the model and is never used in arithmetic.                     *)
(***************************************************************************)
EXTENDS Integers, Sequences, FiniteSets, TLC

VARIABLES
    modes,      \* culori's global registry: the colour modes registered so far
    mainColor,  \* first argument of the current call
    options,    \* second argument: a function from the fields present to values
    opts,       \* the call's merged options (const opts)
    outcome,    \* "pending" | "returned" | "thrown"
    result,     \* the GradientWithOklch returned, or NoResult
    prev,       \* an earlier completed call (arguments and result), or NoCall
    calls       \* number of calls invoked after the first one

vars == <<modes, mainColor, options, opts, outcome, result, prev, calls>>

---------------------------------------------------------------------------
(* Units *)

Den == 8 * 9 * 5
PosOne == 4 * 5
Milli(n) == n * Den
undefined == 0 - 1000000000
IsNum(x) == x # undefined

UndefinedColor == [mode |-> "undefined"]
UndefinedString == "undefined"

---------------------------------------------------------------------------
(* Program constants *)

\* Mutant: the labels in ascending order.
LUMINANCE_Ascending == <<50, 100, 200, 300, 400, 500, 600, 700, 800, 900, 950>>

LUMINANCE == <<950, 900, 800, 700, 600, 500, 400, 300, 200, 100, 50>>

BLACK == "#000000"
WHITE == "#FFFFFF"

Fields == {"minL", "maxL", "darkChroma", "lightChroma", "mainColorStop"}

DEFAULT_OPTIONS ==
    [minL |-> Milli(200), maxL |-> Milli(980), darkChroma |-> Milli(1),
     lightChroma |-> Milli(10), mainColorStop |-> PosOne \div 2]

---------------------------------------------------------------------------
(* assertIsDefined: TRUE when the assertion passes, FALSE when it throws.  *)
(* The first form is used on colour objects, the second on strings.        *)

assertIsDefined(val) == val # UndefinedColor

assertIsDefinedString(val) == val # UndefinedString

---------------------------------------------------------------------------
(* culori: mode registration, parsing, conversion, clamping *)

\* useMode(definition): registers the mode's converters and parsers in the
\* library's global tables; registering a mode twice changes nothing.
setMode(registered, mode) == registered \cup {mode}

\* The colour strings of the model that culori's parsers accept once the
\* mode that owns the parser is registered: hex notation belongs to rgb,
\* oklch() notation to oklch.
HexColors ==
    [s \in {"#3b82f6", "#ff0000", "#808080"} |->
        CASE s = "#3b82f6" -> <<59, 130, 246>>
          [] s = "#ff0000" -> <<255, 0, 0>>
          [] s = "#808080" -> <<128, 128, 128>>]

OklchStrings ==
    [s \in {"oklch(0.7 0.4 150)"} |->
        [mode |-> "oklch", l |-> Milli(700), c |-> Milli(400), h |-> 150]]

UnparseableStrings == {"not-a-color", ""}

\* parse(string): the colour the first matching registered parser yields,
\* undefined when none matches.
parse(registered, s) ==
    IF s \in DOMAIN HexColors /\ "rgb" \in registered
      THEN [mode |-> "rgb", r |-> HexColors[s][1], g |-> HexColors[s][2],
            b |-> HexColors[s][3]]
    ELSE IF s \in DOMAIN OklchStrings /\ "oklch" \in registered
      THEN OklchStrings[s]
    ELSE UndefinedColor

\* converter('oklch') on an rgb colour: sRGB -> linear -> LMS (cube roots)
\* -> OKLab -> polar form, rounded here to 1/1000 and to whole degrees.  A
\* grey (r = g = b) has chroma 0 and no hue.
RgbToOklch(r, g, b) ==
    CASE <<r, g, b>> = <<59, 130, 246>> ->
            [mode |-> "oklch", l |-> Milli(623), c |-> Milli(188), h |-> 260]
      [] <<r, g, b>> = <<255, 0, 0>> ->
            [mode |-> "oklch", l |-> Milli(628), c |-> Milli(258), h |-> 29]
      [] <<r, g, b>> = <<128, 128, 128>> ->
            [mode |-> "oklch", l |-> Milli(600), c |-> 0, h |-> undefined]

\* converter('oklch'): undefined stays undefined, a colour already in the
\* mode is returned as it is, any other is converted.
oklch(color) ==
    IF color = UndefinedColor THEN UndefinedColor
    ELSE IF color.mode = "oklch" THEN color
    ELSE RgbToOklch(color.r, color.g, color.b)

\* clampGamut('oklch') applied to a string.  The oklch mode definition
\* declares no gamut, so the function clampGamut returns only prepares its
\* argument: a string is parsed, and nothing is clamped.
clampString(registered, s) == parse(registered, s)

\* clampGamut('oklch') applied to a colour object: returned as it is.
clamp(color) == color


---------------------------------------------------------------------------
(* culori: interpolate and samples *)

\* samples(n): the n equidistant positions i/(n-1), i = 0..n-1.
samples(n) == [i \in 1..n |-> ((i - 1) * PosOne) \div (n - 1)]

\* normalizePositions: a missing first position is 0 and a missing last one
\* is 1; a run of missing positions is spread evenly between its
\* neighbours; a position below its predecessor is raised to it.
RECURSIVE NormalizeFrom(_, _)
NormalizeFrom(arr, i) ==
    IF i > Len(arr) THEN arr
    ELSE IF arr[i] = undefined
      THEN LET j == CHOOSE k \in (i + 1)..Len(arr) :
                        /\ arr[k] # undefined
                        /\ \A m \in i..(k - 1) : arr[m] = undefined
               from_pos == arr[i - 1]
               filled == [k \in 1..Len(arr) |->
                            IF k >= i /\ k < j
                              THEN from_pos +
                                   ((k + 1 - i) * (arr[j] - from_pos)) \div (j - i + 1)
                              ELSE arr[k]]
           IN  NormalizeFrom(filled, j + 1)
    ELSE IF arr[i] < arr[i - 1]
      THEN NormalizeFrom([arr EXCEPT ![i] = arr[i - 1]], i + 1)
    ELSE NormalizeFrom(arr, i + 1)

normalizePositions(arr) ==
    LET first == IF arr[1] = undefined THEN [arr EXCEPT ![1] = 0] ELSE arr
        both == IF first[Len(arr)] = undefined
                  THEN [first EXCEPT ![Len(arr)] = PosOne] ELSE first
    IN  NormalizeFrom(both, 2)

normalizeHue(hue) == hue % 360

\* fixupHueShorter: the hues rewritten so that each step to the next
\* defined hue takes the shorter way round the circle.
RECURSIVE FixupFrom(_, _, _)
FixupFrom(hues, i, acc) ==
    IF i > Len(hues) THEN acc
    ELSE LET d == normalizeHue(hues[i]) - normalizeHue(hues[i - 1])
             curr == IF hues[i] = undefined THEN undefined
                     ELSE IF hues[i - 1] = undefined THEN normalizeHue(hues[i])
                     ELSE IF d <= 180 /\ d >= 0 - 180 THEN d
                     ELSE IF d > 0 THEN d - 360 ELSE d + 360
             val == IF curr = undefined \/ acc[i - 1] = undefined
                      THEN curr ELSE curr + acc[i - 1]
         IN  FixupFrom(hues, i + 1, Append(acc, val))

fixupHueShorter(hues) ==
    FixupFrom(hues, 2,
              <<IF hues[1] = undefined THEN undefined ELSE normalizeHue(hues[1])>>)

\* lerp(a, b, t) = a + t * (b - a), with t = num / den.
lerp(a, b, num, den) == a + (num * (b - a)) \div den

\* interpolatorLinear over the values of one channel, evaluated at class
\* k (1-based) and fraction num/den inside it.  A class with one value
\* missing is constant at the other; with both missing it is undefined.
interpolatorLinear(arr, k, num, den) ==
    LET a == arr[k]
        b == arr[k + 1]
    IN  IF a = undefined /\ b = undefined THEN undefined
        ELSE IF a # undefined /\ b # undefined THEN lerp(a, b, num, den)
        ELSE IF a # undefined THEN a
        ELSE b

\* The function interpolate(colors, 'oklch') returns, applied to t.
\* positions are the normalized positions of the colours.
\* No colour of the model has an alpha channel, so none is interpolated.
interpolate(colors, positions, t) ==
    LET n_classes == Len(colors) - 1
        tc == IF t < 0 THEN 0 ELSE IF t > PosOne THEN PosOne ELSE t
    IN  IF tc <= positions[1] THEN colors[1]
        ELSE IF tc > positions[n_classes + 1] THEN colors[n_classes + 1]
        ELSE
          LET idx == CHOOSE i \in 2..(n_classes + 1) :
                         /\ ~(positions[i] < tc)
                         /\ \A m \in 1..(i - 1) : positions[m] < tc
              start == positions[idx - 1]
              delta == positions[idx] - start
              num == tc - start
              \* t0 * classes = (idx - 2) + num/delta, as class and fraction
              atEnd == num = delta
              k == IF ~atEnd THEN idx - 1
                   ELSE IF idx - 1 = n_classes THEN n_classes
                   ELSE idx
              fnum == IF ~atEnd THEN num
                      ELSE IF idx - 1 = n_classes THEN delta ELSE 0
              ls == [i \in 1..Len(colors) |-> colors[i].l]
              cs == [i \in 1..Len(colors) |-> colors[i].c]
              hs == fixupHueShorter([i \in 1..Len(colors) |-> colors[i].h])
          IN  [mode |-> "oklch",
               l |-> interpolatorLinear(ls, k, fnum, delta),
               c |-> interpolatorLinear(cs, k, fnum, delta),
               h |-> interpolatorLinear(hs, k, fnum, delta)]

---------------------------------------------------------------------------
(* culori: formatHex *)

\* cos and sin of the hues of the model's colours, in 1/1000.
Cos1000(h) == CASE h = 260 -> 0 - 174 [] h = 29 -> 875 [] h = 150 -> 0 - 866
                [] OTHER -> 1000
Sin1000(h) == CASE h = 260 -> 0 - 985 [] h = 29 -> 485 [] h = 150 -> 500
                [] OTHER -> 0

\* x^3 for x in 1/1000, in units of 1/100000.
Cube(x) == (((x * x) \div 10) * x) \div 1000

\* convertOklchToOklab, then convertOklabToLrgb: the three linear-light
\* channels in units of 1/100000.  A missing l, c or h counts as 0.
OklchToLrgb(color) ==
    LET l == IF color.l = undefined THEN 0 ELSE color.l \div Den
        c == IF color.c = undefined THEN 0 ELSE color.c \div Den
        h == IF color.h = undefined THEN 0 ELSE normalizeHue(color.h)
        a == (c * Cos1000(h)) \div 1000
        b == (c * Sin1000(h)) \div 1000
        L == Cube(l + (396 * a + 216 * b) \div 1000)
        M == Cube(l - (106 * a + 64 * b) \div 1000)
        S == Cube(l - (89 * a + 1291 * b) \div 1000)
    IN  <<(4077 * L - 3308 * M + 231 * S) \div 1000,
          (2610 * M - 1268 * L - 341 * S) \div 1000,
          (1708 * S - 4 * L - 703 * M) \div 1000>>

\* SrgbThreshold[v]: the least linear-light value, in 1/100000, that the
\* sRGB transfer function followed by round(255 * x) takes to byte v.
SrgbThreshold ==
  <<15, 46, 76, 106, 137, 167, 197, 228, 258, 288, 319, 351, 385, 421, 458,
    498, 539, 582, 628, 675, 724, 776, 829, 885, 942, 1002, 1064, 1128, 1195, 1263,
    1334, 1407, 1482, 1560, 1640, 1722, 1807, 1894, 1983, 2075, 2169, 2266, 2365, 2467, 2571,
    2678, 2787, 2899, 3013, 3130, 3250, 3372, 3497, 3624, 3754, 3887, 4023, 4161, 4302, 4446,
    4592, 4741, 4894, 5048, 5206, 5367, 5530, 5696, 5865, 6038, 6212, 6390, 6571, 6755, 6942,
    7131, 7324, 7520, 7718, 7920, 8125, 8333, 8543, 8757, 8974, 9195, 9418, 9644, 9874, 10107,
    10343, 10582, 10824, 11069, 11318, 11570, 11825, 12083, 12345, 12610, 12878, 13150, 13425, 13703, 13984,
    14269, 14557, 14849, 15144, 15442, 15744, 16049, 16358, 16670, 16985, 17304, 17626, 17952, 18282, 18614,
    18951, 19291, 19634, 19981, 20331, 20685, 21043, 21404, 21769, 22137, 22509, 22885, 23264, 23647, 24033,
    24424, 24818, 25215, 25616, 26021, 26430, 26842, 27258, 27678, 28102, 28529, 28960, 29395, 29834, 30276,
    30722, 31172, 31626, 32084, 32546, 33011, 33480, 33953, 34430, 34911, 35396, 35885, 36377, 36874, 37374,
    37879, 38387, 38900, 39416, 39936, 40460, 40989, 41521, 42057, 42597, 43142, 43690, 44242, 44799, 45359,
    45924, 46493, 47065, 47642, 48223, 48808, 49397, 49990, 50588, 51189, 51795, 52405, 53019, 53637, 54260,
    54886, 55517, 56152, 56791, 57435, 58082, 58734, 59390, 60051, 60716, 61385, 62058, 62735, 63417, 64103,
    64794, 65488, 66188, 66891, 67599, 68311, 69027, 69748, 70473, 71203, 71937, 72675, 73418, 74165, 74917,
    75673, 76433, 77198, 77967, 78741, 79519, 80302, 81089, 81881, 82677, 83478, 84283, 85093, 85907, 86726,
    87549, 88377, 89209, 90046, 90887, 91733, 92584, 93439, 94299, 95163, 96032, 96906, 97784, 98667, 99555>>

\* The byte of a linear-light channel: the number of thresholds it reaches
\* (0 below the first, 255 from the last on: the clamp to [0, 1]).
RECURSIVE ByteBetween(_, _, _)
ByteBetween(x, lo, hi) ==
    IF lo = hi THEN lo
    ELSE LET mid == (lo + hi + 1) \div 2
         IN  IF SrgbThreshold[mid] <= x THEN ByteBetween(x, mid, hi)
             ELSE ByteBetween(x, lo, mid - 1)

ToByte(x) == ByteBetween(x, 0, Len(SrgbThreshold))

HexDigits == <<"0", "1", "2", "3", "4", "5", "6", "7",
               "8", "9", "a", "b", "c", "d", "e", "f">>

HexByte(v) == HexDigits[(v \div 16) + 1] \o HexDigits[(v % 16) + 1]

\* formatHex(color): undefined for an undefined colour, else '#rrggbb' of
\* the colour converted to rgb, each channel clamped to [0, 1].
formatHex(color) ==
    IF color = UndefinedColor THEN UndefinedString
    ELSE LET lrgb == OklchToLrgb(color)
         IN  "#" \o HexByte(ToByte(lrgb[1])) \o HexByte(ToByte(lrgb[2]))
                 \o HexByte(ToByte(lrgb[3]))

\* Whether an oklch colour is displayable: each linear-light sRGB channel
\* lies in [0, 1] (to the rounding of the model, 1/1000).
Displayable(color) ==
    LET lrgb == OklchToLrgb(color)
    IN  \A i \in 1..3 : lrgb[i] >= 0 - 100 /\ lrgb[i] <= 100000 + 100

---------------------------------------------------------------------------
(* createGradientWithOklch *)

\* { ...a, ...b }: every own field of b, undefined values included,
\* overrides the field of a.  An omitted options argument is the empty
\* function: spreading undefined copies nothing.
Spread(a, b) ==
    [k \in DOMAIN a \cup DOMAIN b |-> IF k \in DOMAIN b THEN b[k] ELSE a[k]]

\* const opts = { ...DEFAULT_OPTIONS, ...options }
MergedOptions(o) == Spread(DEFAULT_OPTIONS, o)

\* Mutant: the call registers no mode.
RegisterNothing(registered) == registered

\* setMode(modeOklch); setMode(modeRgb)
RegisterModes(registered) == setMode(setMode(registered, "oklch"), "rgb")

\* Mutant: an unparseable colour is replaced by black.
LchMainColorOrFallback(registered, color) ==
    IF oklch(clampString(registered, color)) = UndefinedColor
      THEN [mode |-> "oklch", l |-> 0, c |-> 0, h |-> undefined]
      ELSE oklch(clampString(registered, color))

\* const lchMainColor = oklch(clamp(mainColor))
LchMainColor(registered, color) == oklch(clampString(registered, color))

\* const lchDarkest = clamp({ ...lchMainColor, l: opts.minL, c: opts.darkChroma })
LchDarkest(lchMainColor, o) ==
    clamp([lchMainColor EXCEPT !.l = o.minL, !.c = o.darkChroma])

\* Mutant: the light endpoint keeps the main colour's lightness.
LchLightestKeepsLightness(lchMainColor, o) ==
    clamp([lchMainColor EXCEPT !.c = o.lightChroma])

\* const lchLightest = clamp({ ...lchMainColor, l: opts.maxL, c: opts.lightChroma })
LchLightest(lchMainColor, o) ==
    clamp([lchMainColor EXCEPT !.l = o.maxL, !.c = o.lightChroma])

\* Mutant: the main colour is given no position.
KeyframePositionsCentered(o) ==
    normalizePositions(<<undefined, undefined, undefined>>)

\* The positions interpolate derives from
\* [lchDarkest, [lchMainColor, opts.mainColorStop], lchLightest].
KeyframePositions(o) ==
    normalizePositions(<<undefined, o.mainColorStop, undefined>>)

\* const lchGradient = interpolate([...], 'oklch'), applied to t
LchGradient(lchDarkest, lchMainColor, lchLightest, o, t) ==
    interpolate(<<lchDarkest, lchMainColor, lchLightest>>,
                KeyframePositions(o), t)

\* const sampledColors = samples(LUMINANCE.length).map(lchGradient)
SampledColors(lchDarkest, lchMainColor, lchLightest, o) ==
    [i \in 1..Len(LUMINANCE) |->
        LchGradient(lchDarkest, lchMainColor, lchLightest, o,
                    samples(Len(LUMINANCE))[i])]

\* sampledColors.map((oklchColor, i) => [LUMINANCE[i], formatHex(oklchColor)])
DiscreteGradient(sampledColors) ==
    [i \in 1..Len(sampledColors) |->
        <<LUMINANCE[i], formatHex(sampledColors[i])>>]

OklchPoint(color) == [l |-> color.l, c |-> color.c, h |-> color.h]

\* Mutant: the points are paired with the labels in the opposite order.
OklchPointsReversed(sampledColors) ==
    [i \in 1..Len(sampledColors) |->
        <<LUMINANCE[Len(sampledColors) + 1 - i], OklchPoint(sampledColors[i])>>]

\* sampledColors.map((oklchColor, i) => [LUMINANCE[i], { l, c, h }])
OklchPoints(sampledColors) ==
    [i \in 1..Len(sampledColors) |->
        <<LUMINANCE[i], OklchPoint(sampledColors[i])>>]

\* Object.fromEntries: one key per distinct entry key, the last entry of a
\* key giving its value.
fromEntries(entries) ==
    [k \in {entries[i][1] : i \in DOMAIN entries} |->
        entries[CHOOSE i \in DOMAIN entries :
                    /\ entries[i][1] = k
                    /\ \A j \in DOMAIN entries : entries[j][1] = k => j <= i][2]]

\* Mutant: the white entry is left out.
GradientWithoutWhite(discreteGradient) ==
    fromEntries(discreteGradient \o <<<<1000, BLACK>>>>)

\* Object.fromEntries([...discreteGradient, [0, WHITE], [1000, BLACK]])
Gradient(discreteGradient) ==
    fromEntries(discreteGradient \o <<<<0, WHITE>>, <<1000, BLACK>>>>)

\* Mutant: the two boundary points are exchanged.
AllOklchPointsSwapped(oklchPoints) ==
    fromEntries(oklchPoints \o
        <<<<1000, [l |-> Milli(1000), c |-> 0, h |-> undefined]>>,
          <<0, [l |-> 0, c |-> 0, h |-> undefined]>>>>)

\* Object.fromEntries([...oklchPoints, [0, {l: 1, c: 0}], [1000, {l: 0, c: 0}]])
AllOklchPoints(oklchPoints) ==
    fromEntries(oklchPoints \o
        <<<<0, [l |-> Milli(1000), c |-> 0, h |-> undefined]>>,
          <<1000, [l |-> 0, c |-> 0, h |-> undefined]>>>>)

NoResult == [error |-> "TypeError"]

\* The whole call: the registry after it, the merged options, whether it
\* returned or threw, and the value returned.
createGradientWithOklch(registered, color, o) ==
    LET merged == MergedOptions(o)
        registry == RegisterModes(registered)
        lchMainColor == LchMainColor(registry, color)
        lchDarkest == LchDarkest(lchMainColor, merged)
        lchLightest == LchLightest(lchMainColor, merged)
        sampledColors ==
            SampledColors(lchDarkest, lchMainColor, lchLightest, merged)
        discreteGradient == DiscreteGradient(sampledColors)
        thrown == [modes |-> registry, opts |-> merged,
                   outcome |-> "thrown", result |-> NoResult]
    IN  IF ~assertIsDefined(lchMainColor) THEN thrown
        ELSE IF ~assertIsDefined(lchDarkest) THEN thrown
        ELSE IF ~assertIsDefined(lchLightest) THEN thrown
        ELSE IF \E i \in DOMAIN discreteGradient :
                    ~assertIsDefinedString(discreteGradient[i][2]) THEN thrown
        ELSE [modes |-> registry, opts |-> merged, outcome |-> "returned",
              result |->
                [gradient |-> Gradient(discreteGradient),
                 oklchPoints |-> AllOklchPoints(OklchPoints(sampledColors)),
                 mainColorOklch |-> OklchPoint(lchMainColor)]]

---------------------------------------------------------------------------
(* The arguments the model draws *)

MaxCalls == 3

Absent == undefined - 1

MinLChoices == {Absent, undefined, 0, Milli(200), Milli(700)}
MaxLChoices == {Absent, undefined, Milli(500), Milli(1000)}
DarkChromaChoices == {Absent, undefined, 0, Milli(200)}
LightChromaChoices == {Absent, undefined, 0}
StopChoices == {Absent, undefined, 0 - 2, 0, 2, 5, 18, 20, 24}

\* The options object with the fields whose choice is not Absent.
MakeOptions(minL, maxL, darkChroma, lightChroma, mainColorStop) ==
    LET all == [minL |-> minL, maxL |-> maxL, darkChroma |-> darkChroma,
                lightChroma |-> lightChroma, mainColorStop |-> mainColorStop]
    IN  [k \in {f \in Fields : all[f] # Absent} |-> all[k]]

OptionRecords ==
    {MakeOptions(a, b, c, d, e) :
        a \in MinLChoices, b \in MaxLChoices, c \in DarkChromaChoices,
        d \in LightChromaChoices, e \in StopChoices}

Colors == DOMAIN HexColors \cup DOMAIN OklchStrings \cup UnparseableStrings

NoOptions == MakeOptions(Absent, Absent, Absent, Absent, Absent)

SessionColors == {"#3b82f6", "not-a-color"}
SessionOptions ==
    {NoOptions,
     MakeOptions(undefined, Absent, Absent, Absent, Absent),
     MakeOptions(Absent, Absent, Absent, Absent, 2),
     MakeOptions(Milli(200), Milli(980), Milli(1), Milli(10), 10)}

NoCall == [none |-> TRUE]
AppModes == {"oklch", "rgb"}

---------------------------------------------------------------------------
(* Actions *)

\* The App module is evaluated: setMode(modeOklch); setMode(modeRgb).
LoadApp ==
    /\ modes # AppModes
    /\ modes' = setMode(setMode(modes, "oklch"), "rgb")
    /\ UNCHANGED <<mainColor, options, opts, outcome, result, prev, calls>>

\* createGradientWithOklch(mainColor, options) runs to its return or throw.
Call ==
    /\ outcome = "pending"
    /\ LET r == createGradientWithOklch(modes, mainColor, options)
       IN  /\ modes' = r.modes
           /\ opts' = r.opts
           /\ outcome' = r.outcome
           /\ result' = r.result
    /\ UNCHANGED <<mainColor, options, prev, calls>>

\* A caller starts another call; the model may remember the call that just
\* ended, to compare a later one with it.
Invoke(color, o, remember) ==
    /\ outcome # "pending"
    /\ calls < MaxCalls
    /\ mainColor' = color
    /\ options' = o
    /\ opts' = NoOptions
    /\ outcome' = "pending"
    /\ result' = NoResult
    /\ prev' = IF remember
                 THEN [mainColor |-> mainColor, options |-> options,
                       outcome |-> outcome, result |-> result]
                 ELSE prev
    /\ calls' = calls + 1
    /\ UNCHANGED modes

Init ==
    /\ modes = {}
    /\ mainColor \in Colors
    /\ options \in OptionRecords
    /\ opts = NoOptions
    /\ outcome = "pending"
    /\ result = NoResult
    /\ prev = NoCall
    /\ calls = 0

Next == LoadApp \/ Call

\* One call, of any arguments of the model.
Spec == Init /\ [][Next]_vars

InitSession ==
    /\ modes = {}
    /\ mainColor \in SessionColors
    /\ options \in SessionOptions
    /\ opts = NoOptions
    /\ outcome = "pending"
    /\ result = NoResult
    /\ prev = NoCall
    /\ calls = 0

NextSession ==
    \/ LoadApp
    \/ Call
    \/ \E color \in SessionColors, o \in SessionOptions, remember \in BOOLEAN :
          Invoke(color, o, remember)

\* A sequence of calls.
SpecSession == InitSession /\ [][NextSession]_vars

---------------------------------------------------------------------------
(* Properties *)

AllLabels == {0, 50, 100, 200, 300, 400, 500, 600, 700, 800, 900, 950, 1000}

\* The eleven sampled labels, darkest first.
DarkestFirst == <<950, 900, 800, 700, 600, 500, 400, 300, 200, 100, 50>>

Returned == outcome = "returned"

LightnessAt(label) == result.oklchPoints[label].l
ChromaAt(label) == result.oklchPoints[label].c

\* C1: whenever the call returns, result.gradient and result.oklchPoints
\* have exactly the 13 labels {0, 50, 100, ..., 900, 950, 1000} as keys.
C1_ExactlyThirteenLabels ==
    Returned =>
        /\ DOMAIN result.gradient = AllLabels
        /\ DOMAIN result.oklchPoints = AllLabels

C1_Witness ==
    /\ Returned
    /\ mainColor = "#3b82f6"
    /\ options = NoOptions
    /\ Cardinality(DOMAIN result.gradient) = 13

\* C2: whenever the call returns, label 0 is pure white and label 1000 pure
\* black, in the gradient and as perceptual points {l: 1, c: 0} and
\* {l: 0, c: 0} without hue, whatever the colour and the options.
C2_FixedBoundaries ==
    Returned =>
        /\ result.gradient[0] = "#FFFFFF"
        /\ result.gradient[1000] = "#000000"
        /\ result.oklchPoints[0] = [l |-> Milli(1000), c |-> 0, h |-> undefined]
        /\ result.oklchPoints[1000] = [l |-> 0, c |-> 0, h |-> undefined]

C2_Witness ==
    /\ Returned
    /\ mainColor = "#ff0000"
    /\ "minL" \in DOMAIN options /\ options.minL = 0
    /\ "maxL" \in DOMAIN options /\ options.maxL = Milli(1000)
    /\ result.gradient[0] = "#FFFFFF"
    /\ result.oklchPoints[1000].l = 0

\* The path dark -> main -> light of a call whose mainColorStop lies
\* strictly between 0 and 1, at position t: piecewise linear through
\* (0, dark), (stop, main), (1, light).
PathValue(dark, main, light, stop, t) ==
    IF t <= stop THEN dark + (t * (main - dark)) \div stop
    ELSE main + ((t - stop) * (light - main)) \div (PosOne - stop)

NumericOptions == \A f \in Fields : IsNum(opts[f])

\* C3: sample i (i = 0..10) of the path, taken at position i/10, is stored
\* under label DarkestFirst[i]: position 0, the dark endpoint, under 950 and
\* position 1 under 50; and each label's gradient entry is the hex form of
\* the same sample as its perceptual point.
C3_SampleToLabel ==
    Returned =>
        /\ \A i \in 1..11 :
              result.gradient[DarkestFirst[i]] =
                  formatHex([mode |-> "oklch",
                             l |-> LightnessAt(DarkestFirst[i]),
                             c |-> ChromaAt(DarkestFirst[i]),
                             h |-> result.oklchPoints[DarkestFirst[i]].h])
        /\ LightnessAt(950) = opts.minL
        /\ ChromaAt(950) = opts.darkChroma
        /\ (NumericOptions /\ opts.mainColorStop > 0 /\ opts.mainColorStop < PosOne) =>
              \A i \in 1..11 :
                  /\ LightnessAt(DarkestFirst[i]) =
                        PathValue(opts.minL, result.mainColorOklch.l, opts.maxL,
                                  opts.mainColorStop, ((i - 1) * PosOne) \div 10)
                  /\ ChromaAt(DarkestFirst[i]) =
                        PathValue(opts.darkChroma, result.mainColorOklch.c,
                                  opts.lightChroma, opts.mainColorStop,
                                  ((i - 1) * PosOne) \div 10)

C3_Witness ==
    /\ Returned
    /\ NumericOptions
    /\ opts.mainColorStop = 5
    /\ LightnessAt(950) = Milli(200)
    /\ LightnessAt(50) = Milli(980)
    /\ LightnessAt(900) > LightnessAt(950)
    /\ result.gradient[950] # result.gradient[50]

\* C4: in a sequence of calls, a call with the arguments of an earlier call
\* ends as that call did (returns the same value, or throws), whatever was
\* called or registered in between.
C4_SameArgumentsSameResult ==
    (/\ outcome # "pending"
     /\ prev # NoCall
     /\ prev.mainColor = mainColor
     /\ prev.options = options)
        => (prev.outcome = outcome /\ prev.result = result)

C4_Witness ==
    /\ Returned
    /\ calls >= 2
    /\ prev # NoCall
    /\ prev.mainColor = mainColor
    /\ prev.options = options
    /\ prev.result = result

\* C5: the effective options are the caller's fields over the defaults:
\* a field that is absent or undefined takes its default, any other the
\* caller's value.
C5_UnsetFieldsTakeDefaults ==
    outcome # "pending" =>
        \A f \in Fields :
            opts[f] = IF f \in DOMAIN options /\ options[f] # undefined
                        THEN options[f] ELSE DEFAULT_OPTIONS[f]

\* C6: mainColorOklch is the gamut-clamped OKLCH form of mainColor: it
\* depends on mainColor alone and is a displayable colour (stated here for
\* the calls whose options hold no undefined field).
C6_MainColorIsClamped ==
    (Returned /\ \A f \in DOMAIN options : options[f] # undefined) =>
        /\ result.mainColorOklch = OklchPoint(oklch(parse(AppModes, mainColor)))
        /\ Displayable([mode |-> "oklch", l |-> result.mainColorOklch.l,
                        c |-> result.mainColorOklch.c,
                        h |-> result.mainColorOklch.h])

\* C7 as claimed: for every record of numeric options, label 950 has
\* lightness minL unless mainColorStop is position 0, and label 50 has
\* lightness maxL unless mainColorStop is position 1.
C7_EndpointLightnessAnyStop ==
    (Returned /\ NumericOptions) =>
        /\ opts.mainColorStop # 0 => LightnessAt(950) = opts.minL
        /\ opts.mainColorStop # PosOne => LightnessAt(50) = opts.maxL

\* C7 amended: for every record of numeric options, label 950 has lightness
\* minL unless mainColorStop is position 0, and label 50 has lightness maxL
\* whenever mainColorStop is below position 1.
C7_EndpointLightness ==
    (Returned /\ NumericOptions) =>
        /\ opts.mainColorStop # 0 => LightnessAt(950) = opts.minL
        /\ opts.mainColorStop < PosOne => LightnessAt(50) = opts.maxL

C7_Witness ==
    /\ Returned
    /\ NumericOptions
    /\ opts.minL = Milli(700)
    /\ opts.maxL = Milli(500)
    /\ opts.mainColorStop = 18
    /\ LightnessAt(950) = Milli(700)
    /\ LightnessAt(50) = Milli(500)

\* C8: a call either throws, returning nothing, or returns a result whose
\* 13 gradient entries are all defined strings; a mainColor that does not
\* parse makes the call throw.
C8_ThrowsOrComplete ==
    /\ mainColor \in UnparseableStrings =>
          (outcome \in {"pending", "thrown"} /\ result = NoResult)
    /\ outcome = "thrown" => result = NoResult
    /\ Returned =>
          \A label \in AllLabels :
              /\ label \in DOMAIN result.gradient
              /\ result.gradient[label] # UndefinedString

C8_Witness ==
    /\ outcome = "thrown"
    /\ mainColor = "not-a-color"
    /\ result = NoResult

\* C9: when minL < lightness of the main colour < maxL and mainColorStop
\* lies strictly between 0 and 1, the lightness of the labels 950, 900,
\* ..., 100, 50, in this order, is strictly increasing.
C9_LightnessIncreases ==
    (/\ Returned
     /\ NumericOptions
     /\ opts.minL < result.mainColorOklch.l
     /\ result.mainColorOklch.l < opts.maxL
     /\ opts.mainColorStop > 0
     /\ opts.mainColorStop < PosOne)
        => \A i \in 1..10 :
              LightnessAt(DarkestFirst[i]) < LightnessAt(DarkestFirst[i + 1])

C9_Witness ==
    /\ Returned
    /\ mainColor = "#3b82f6"
    /\ options = NoOptions
    /\ LightnessAt(950) < LightnessAt(500)
    /\ LightnessAt(500) < LightnessAt(50)
    /\ result.gradient[1000] = "#000000"
    /\ result.gradient[0] = "#FFFFFF"

\* C10: when mainColorStop is the sample position k/10 with 0 < k < 10, the
\* point under the k-th label after 950 has the lightness and the chroma of
\* mainColorOklch.
C10_PathThroughMainColor ==
    (/\ Returned
     /\ IsNum(opts.mainColorStop)
     /\ opts.mainColorStop > 0
     /\ opts.mainColorStop < PosOne
     /\ (opts.mainColorStop * 10) % PosOne = 0)
        => LET k == (opts.mainColorStop * 10) \div PosOne
           IN  /\ LightnessAt(DarkestFirst[k + 1]) = result.mainColorOklch.l
               /\ ChromaAt(DarkestFirst[k + 1]) = result.mainColorOklch.c

C10_Witness ==
    /\ Returned
    /\ opts.mainColorStop = 2
    /\ opts.minL = Milli(700)
    /\ result.mainColorOklch.l = Milli(623)
    /\ LightnessAt(900) = Milli(623)
    /\ ChromaAt(900) = Milli(188)

=============================================================================
